---- MODULE Spec2Model ----
(***************************************************************************)
(* Model of the MiniTraycer planning pipeline: the LangGraph workflow of   *)
(* lib/pipeline/index.ts, its routers (lib/pipeline/routing.ts), its nodes *)
(* (lib/pipeline/nodes.ts) and the state reducers (lib/pipeline/state.ts). *)
(*                                                                         *)
(* One action is one node execution: the node function computes a partial  *)
(* update, the channel reducers merge it into the state, and the node's    *)
(* conditional edge picks the next node from the merged state.             *)
(***************************************************************************)
EXTENDS Integers, Sequences, FiniteSets, TLC

VARIABLES
  state,     \* the PipelineState record threaded through the run
  node,      \* the node the graph executes next ("END" once the run halted)
  executed,  \* history: the node that executed last ("none" before the first)
  outcome,   \* history: how that execution ended
  delays,    \* history: the backoff delays slept so far, in ms
  faults,    \* history: where backend attempts failed during the run
  budgetHit, \* history: some node has reported stepCount >= maxSteps
  raised,    \* the exception that left runPipeline (Null while there is none)
  cancelled, \* the caller has asked for the run to be cancelled
  classified, \* history: a project-classification call has returned a result
  llmCalls,  \* history: the model calls of the last node execution
  adaptive,  \* one calculateAdaptiveMaxTokens call: its inputs and its result
  call,      \* one LLMInvoker.invoke call, with the key store it works on
  limiter    \* RateLimitManager: the stored metrics of one model/key pair

pipeline == <<state, node, executed, outcome, delays, faults, budgetHit,
              raised, cancelled, classified, llmCalls>>

utilities == <<adaptive, call, limiter>>

vars == <<state, node, executed, outcome, delays, faults, budgetHit,
          raised, cancelled, classified, llmCalls, adaptive, call, limiter>>

----------------------------------------------------------------------------
(* Bounds of the model *)

MaxSections == 2       \* longest section list the planning model call returns
MaxQuestions == 2      \* most questions / missing-info items a model call returns
SmallMaxSteps == 5     \* the small step budget tried next to the default one
MaxContext == 21344    \* longest context handed to the token budget, in characters
MaxReports == 2        \* most usage reports one pipeline run makes
MaxTicks == 4          \* how often the clock of the rate limiter advances
TickMs == 30000        \* by how many ms it advances each time
RpmLimit == 2          \* the requests-per-minute limit handed to canMakeRequest

(* Program constants *)

DefaultMaxSteps == 50
DefaultMaxRetries == 3
MaxAttempts == 3
BaseDelay == 1000
MaxDelay == 10000
FallbackQuestions == 3
SufficientWords == 15

----------------------------------------------------------------------------
(* Values *)

Null == "null"             \* JS null
Undefined == "undefined"   \* JS undefined

(* Truthiness of a string-valued field *)
Truthy(x) == x \notin {Null, Undefined, ""}

(* intentConfidence is kept in tenths; NoConfidence stands for undefined    *)
NoConfidence == -1
Confidences == {3, 5, 7}

(* A document (finalPlan) is a sequence of lines, a line a tuple of string  *)
(* pieces; NullDoc stands for null and EmptyDoc for the empty string.       *)
NullDoc == << <<Null>> >>
EmptyDoc == << >>
TruthyDoc(d) == d # NullDoc /\ d # EmptyDoc

(* String.prototype.trim on the two kinds of text a model call returns      *)
trim(text) == IF text = " " THEN "" ELSE text
Contents == {"text", " "}
TextDoc(text) == IF text = "" THEN EmptyDoc ELSE << <<text>> >>

(* planSummary is a tuple of string pieces; NoSummary stands for null       *)
NoSummary == <<Null>>

END == "END"

(* Messages of the errors that LLMInvoker.invoke throws *)
ErrNoKeys == "No available API keys"
ErrExhausted == "All API keys exhausted"
ErrMaxAttempts == "Max attempts exceeded"
(* The message of an exception of the key store (Redis) that escapes invoke *)
ErrRedis == "Connection timeout"

ErrMaxSteps == "Max steps exceeded"
ErrNoSectionsToGenerate == "No sections to generate"
ErrNoSectionsGenerated == "No sections generated"
ErrMaxRetries == "Max retries exceeded. Last error: "

(* lastError is a sequence of message pieces; NoError stands for null       *)
NoError == << >>
Err(message) == <<message>>

(* lastError.includes(sub) for the substrings the router looks for          *)
Includes(err, sub) ==
  \E i \in DOMAIN err : err[i] = ErrRedis /\ sub = "timeout"

----------------------------------------------------------------------------
(* LLMInvoker.invoke against a backend whose attempts succeed or time out   *)
(* and a model manager that finds a key, finds none, or throws.             *)

BackendOutcomes == {"ok", "timeout"}
KeyOutcomes == {"key", "none", "throws"}

RECURSIVE InvokeLoop(_, _, _)
InvokeLoop(attempt, calls, nexts) ==
  IF attempt > MaxAttempts
  THEN [ok |-> FALSE, error |-> ErrMaxAttempts, fails |-> MaxAttempts]
  ELSE IF calls[attempt] = "ok"
       THEN [ok |-> TRUE, error |-> Null, fails |-> attempt - 1]
       ELSE CASE nexts[attempt] = "throws" ->
                   [ok |-> FALSE, error |-> ErrRedis, fails |-> attempt]
              [] nexts[attempt] = "none" ->
                   [ok |-> FALSE, error |-> ErrExhausted, fails |-> attempt]
              [] OTHER -> InvokeLoop(attempt + 1, calls, nexts)

invoke(first, calls, nexts) ==
  CASE first = "throws" -> [ok |-> FALSE, error |-> ErrRedis, fails |-> 0]
    [] first = "none" -> [ok |-> FALSE, error |-> ErrNoKeys, fails |-> 0]
    [] OTHER -> InvokeLoop(1, calls, nexts)

(* Every result one invoke call can have *)
InvokeResults ==
  { invoke(f, c, n) : f \in KeyOutcomes,
                      c \in [1..MaxAttempts -> BackendOutcomes],
                      n \in [1..MaxAttempts -> KeyOutcomes] }

(* parseJSON: the parsed value, or the fallback when the text is no JSON *)
parseJSON(text, fallback) ==
  IF text.parseable THEN text.value ELSE fallback

Unparseable == [parseable |-> FALSE, value |-> Null]
Parsed(values) == { [parseable |-> TRUE, value |-> v] : v \in values }

----------------------------------------------------------------------------
(* The state channels and their reducers *)

(* Variant: the planSections channel overwrites like the others *)
ReducerOverwrites(field, prev, newVal) ==
  IF field = "stepCount" THEN prev + 1 ELSE newVal

Reducer(field, prev, newVal) ==
  CASE field = "stepCount" -> prev + 1
    [] field = "planSections" -> prev \o newVal
    [] OTHER -> newVal

(* The state after the channels took a node's partial update *)
Merge(s, update) ==
  [f \in DOMAIN s |->
     IF f \in DOMAIN update THEN Reducer(f, s[f], update[f]) ELSE s[f]]

(* A prompt is known by whether it holds a skip phrase and by its word      *)
(* count, a history by its length. The requests tried: a prompt with a skip *)
(* phrase, a short prompt in a running conversation, a long first prompt    *)
Requests ==
  { [prompt |-> [skip |-> TRUE, words |-> 5], history |-> 0],
    [prompt |-> [skip |-> FALSE, words |-> 5], history |-> 1],
    [prompt |-> [skip |-> FALSE, words |-> 20], history |-> 0] }

createInitialState(prompt, history) ==
  [ userPrompt |-> prompt,
    history |-> history,
    promptType |-> Undefined,
    intentConfidence |-> NoConfidence,
    needsClarification |-> FALSE,
    clarificationQuestions |-> 0,
    sections |-> << >>,
    generatedSections |-> {},
    planSections |-> << >>,
    finalPlan |-> NullDoc,
    planSummary |-> NoSummary,
    finalResponse |-> Undefined,
    projectCategory |-> Undefined,
    detectedTechStack |-> << >>,
    suggestedTechStack |-> << >>,
    projectComplexity |-> "moderate",
    retryCount |-> 0,
    maxRetries |-> DefaultMaxRetries,
    lastError |-> NoError,
    failedNode |-> Null,
    stepCount |-> 0,
    maxSteps |-> DefaultMaxSteps ]

----------------------------------------------------------------------------
(* Helpers of the nodes *)

(* Variant: the thresholds are strict *)
isIntentClearStrict(confidence, hasDetails, missingInfo, canProceedWithDefaults) ==
  \/ confidence > 7
  \/ confidence > 5 /\ canProceedWithDefaults
  \/ hasDetails /\ missingInfo = 0

isIntentClear(confidence, hasDetails, missingInfo, canProceedWithDefaults) ==
  \/ confidence >= 7
  \/ confidence >= 5 /\ canProceedWithDefaults
  \/ hasDetails /\ missingInfo = 0

DefaultStack == <<"Modern web technologies", "Cloud-native tools">>

applyDefaults(s) ==
  (IF Len(s.detectedTechStack) = 0
   THEN [suggestedTechStack |-> DefaultStack] ELSE << >>)
  @@ (IF ~Truthy(s.projectComplexity)
      THEN [projectComplexity |-> "moderate"] ELSE << >>)

isUserSkippingClarification(prompt) == prompt.skip

(* The update every node returns when the step budget is used up, and the   *)
(* one its catch block returns                                              *)
BudgetExceeded(s, name) ==
  [lastError |-> Err(ErrMaxSteps), failedNode |-> name,
   stepCount |-> s.stepCount + 1]

Caught(s, name, message) ==
  [lastError |-> Err(message), failedNode |-> name,
   stepCount |-> s.stepCount + 1]

----------------------------------------------------------------------------
(* The nodes: each maps the state and what its model call returned to the   *)
(* partial update the node returns.                                         *)

AnalysisValues ==
  [ hasSufficientDetail : BOOLEAN,
    missingInfo : 0..MaxQuestions,
    confidence : Confidences,
    canProceedWithDefaults : BOOLEAN ]

(* The fallback values handed to parseJSON (lines 222-230)                  *)
DefaultAnalysis(s) ==
  [hasSufficientDetail |-> s.userPrompt.words >= SufficientWords,
   missingInfo |-> 0,
   confidence |-> 5,
   canProceedWithDefaults |-> FALSE]

initialAnalysisNode(s, result, content) ==
  IF s.stepCount >= s.maxSteps THEN BudgetExceeded(s, "initialAnalysis")
  ELSE IF isUserSkippingClarification(s.userPrompt)
  THEN [stepCount |-> s.stepCount + 1]
       @@ applyDefaults(s)
       @@ [needsClarification |-> FALSE,
           clarificationQuestions |-> 0,
           intentConfidence |-> 6]
  ELSE IF ~result.ok THEN Caught(s, "initialAnalysis", result.error)
  ELSE LET analysis == parseJSON(content, DefaultAnalysis(s))
           shouldClarify ==
             ~isIntentClear(analysis.confidence, analysis.hasSufficientDetail,
                            analysis.missingInfo,
                            analysis.canProceedWithDefaults)
           defaults == IF ~shouldClarify THEN applyDefaults(s) ELSE << >>
       IN [stepCount |-> s.stepCount + 1]
          @@ defaults
          @@ [needsClarification |-> shouldClarify,
              clarificationQuestions |->
                IF shouldClarify THEN analysis.missingInfo ELSE 0,
              intentConfidence |-> analysis.confidence]

PromptTypes == {"general", "chatbot", "builder", "unclear"}

(* What the classification call may answer: the four types, or some other   *)
(* word, since the parsed JSON is taken as it comes                         *)
ClassificationValues ==
  [ type : PromptTypes, confidence : {7} ]
  \cup [ type : {"other"}, confidence : {3, 7} ]

DefaultClassification == [type |-> "general", confidence |-> 5]

classificationNode(s, result, content) ==
  IF s.stepCount >= s.maxSteps THEN BudgetExceeded(s, "classification")
  ELSE IF ~result.ok THEN Caught(s, "classification", result.error)
  ELSE LET classification == parseJSON(content, DefaultClassification)
       IN [promptType |-> classification.type,
           intentConfidence |-> classification.confidence,
           stepCount |-> s.stepCount + 1]

DefaultClarification == [questions |-> FallbackQuestions]

clarificationNode(s, result, content) ==
  IF s.stepCount >= s.maxSteps THEN BudgetExceeded(s, "clarification")
  ELSE IF s.clarificationQuestions > 0
  THEN [needsClarification |-> TRUE, stepCount |-> s.stepCount + 1]
  ELSE IF ~result.ok THEN Caught(s, "clarification", result.error)
  ELSE LET clarification == parseJSON(content, DefaultClarification)
       IN [needsClarification |-> TRUE,
           clarificationQuestions |-> clarification.questions,
           stepCount |-> s.stepCount + 1]

generalResponseNode(s, result, content) ==
  IF s.stepCount >= s.maxSteps THEN BudgetExceeded(s, "generalResponse")
  ELSE IF ~result.ok THEN Caught(s, "generalResponse", result.error)
  ELSE [finalResponse |-> trim(content), stepCount |-> s.stepCount + 1]

chatbotResponseNode(s, result, content) ==
  IF s.stepCount >= s.maxSteps THEN BudgetExceeded(s, "chatbotResponse")
  ELSE IF ~result.ok THEN Caught(s, "chatbotResponse", result.error)
  ELSE [finalResponse |-> trim(content), stepCount |-> s.stepCount + 1]

(* Array.prototype.sort((a, b) => b.priority - a.priority): stable, highest *)
(* priority first                                                           *)
RECURSIVE InsertByPriority(_, _)
InsertByPriority(sorted, x) ==
  IF sorted = << >> THEN <<x>>
  ELSE IF Head(sorted).priority >= x.priority
       THEN <<Head(sorted)>> \o InsertByPriority(Tail(sorted), x)
       ELSE <<x>> \o sorted

RECURSIVE SortByPriority(_)
SortByPriority(seq) ==
  IF seq = << >> THEN << >>
  ELSE InsertByPriority(SortByPriority(SubSeq(seq, 1, Len(seq) - 1)),
                        seq[Len(seq)])

(* Array.prototype.sort((a, b) => a.order - b.order): stable, lowest first  *)
RECURSIVE InsertByOrder(_, _)
InsertByOrder(sorted, x) ==
  IF sorted = << >> THEN <<x>>
  ELSE IF Head(sorted).order <= x.order
       THEN <<Head(sorted)>> \o InsertByOrder(Tail(sorted), x)
       ELSE <<x>> \o sorted

RECURSIVE SortByOrder(_)
SortByOrder(seq) ==
  IF seq = << >> THEN << >>
  ELSE InsertByOrder(SortByOrder(SubSeq(seq, 1, Len(seq) - 1)), seq[Len(seq)])

(* Array.prototype.join(", ") as a tuple of pieces *)
RECURSIVE Join(_)
Join(seq) ==
  IF Len(seq) <= 1 THEN seq
  ELSE <<Head(seq), ", ">> \o Join(Tail(seq))

RECURSIVE SeqsUpTo(_, _)
SeqsUpTo(S, n) ==
  IF n = 0 THEN {<< >>}
  ELSE LET shorter == SeqsUpTo(S, n - 1)
       IN shorter \cup { Append(q, x) : q \in shorter, x \in S }

SectionValues ==
  { [title |-> "A", priority |-> 5], [title |-> "B", priority |-> 10] }

(* The section lists the planning call may answer, the empty one included   *)
PlanValues == [sections : SeqsUpTo(SectionValues, MaxSections)]

ProjectValues ==
  { [category |-> "web_app", detectedStack |-> <<"React">>,
     suggestedStack |-> <<"Node">>, complexity |-> "complex"] }

DefaultProject ==
  [category |-> "general_project", detectedStack |-> << >>,
   suggestedStack |-> << >>, complexity |-> "moderate"]

DefaultPlan ==
  [sections |-> <<[title |-> "Project Overview", priority |-> 10]>>]

sectionPlanningNode(s, classResult, classContent, result, content) ==
  IF s.stepCount >= s.maxSteps THEN BudgetExceeded(s, "sectionPlanning")
  ELSE IF ~Truthy(s.projectCategory) /\ ~classResult.ok
  THEN Caught(s, "sectionPlanning", classResult.error)
  ELSE LET classification == parseJSON(classContent, DefaultProject)
           \* the node's own copy of the state, after lines 494-497
           local ==
             IF ~Truthy(s.projectCategory)
             THEN [s EXCEPT !.projectCategory = classification.category,
                            !.detectedTechStack = classification.detectedStack,
                            !.suggestedTechStack = classification.suggestedStack,
                            !.projectComplexity = classification.complexity]
             ELSE s
           plan == parseJSON(content, DefaultPlan)
       IN IF ~result.ok THEN Caught(s, "sectionPlanning", result.error)
          ELSE [sections |-> SortByPriority(plan.sections),
                projectCategory |-> local.projectCategory,
                detectedTechStack |-> local.detectedTechStack,
                suggestedTechStack |-> local.suggestedTechStack,
                projectComplexity |-> local.projectComplexity,
                stepCount |-> s.stepCount + 1]

(* Variant: the sections not generated yet, last planned first *)
RemainingLastFirst(s) ==
  LET notGenerated(section) == section.title \notin s.generatedSections
      rest == SelectSeq(s.sections, notGenerated)
  IN [i \in 1..Len(rest) |-> rest[Len(rest) + 1 - i]]

(* state.sections.filter((s) => !state.generatedSections.has(s.title))     *)
Remaining(s) ==
  LET notGenerated(section) == section.title \notin s.generatedSections
  IN SelectSeq(s.sections, notGenerated)

SectionContents == {"text"}

(* Variant: order is taken from the number of titles generated before *)
sectionGeneratorNodeOrderFromZero(s, result, content) ==
  IF s.stepCount >= s.maxSteps THEN BudgetExceeded(s, "sectionGenerator")
  ELSE IF Len(s.sections) = 0
  THEN Caught(s, "sectionGenerator", ErrNoSectionsToGenerate)
  ELSE IF Len(Remaining(s)) = 0 THEN [stepCount |-> s.stepCount + 1]
  ELSE IF ~result.ok THEN Caught(s, "sectionGenerator", result.error)
  ELSE [planSections |->
          <<[title |-> Remaining(s)[1].title,
             content |-> trim(content),
             order |-> Cardinality(s.generatedSections)]>>,
        generatedSections |->
          s.generatedSections \cup {Remaining(s)[1].title},
        stepCount |-> s.stepCount + 1]

(* Variant: the generator returns the section without recording its title *)
sectionGeneratorNodeForgetsTitle(s, result, content) ==
  IF s.stepCount >= s.maxSteps THEN BudgetExceeded(s, "sectionGenerator")
  ELSE IF Len(s.sections) = 0
  THEN Caught(s, "sectionGenerator", ErrNoSectionsToGenerate)
  ELSE IF Len(Remaining(s)) = 0 THEN [stepCount |-> s.stepCount + 1]
  ELSE IF ~result.ok THEN Caught(s, "sectionGenerator", result.error)
  ELSE [planSections |->
          <<[title |-> Remaining(s)[1].title,
             content |-> trim(content),
             order |-> Len(s.planSections) + 1]>>,
        stepCount |-> s.stepCount + 1]

sectionGeneratorNode(s, result, content) ==
  IF s.stepCount >= s.maxSteps THEN BudgetExceeded(s, "sectionGenerator")
  ELSE IF Len(s.sections) = 0
  THEN Caught(s, "sectionGenerator", ErrNoSectionsToGenerate)
  ELSE IF Len(Remaining(s)) = 0 THEN [stepCount |-> s.stepCount + 1]
  ELSE LET currentSection == Remaining(s)[1]
       IN IF ~result.ok THEN Caught(s, "sectionGenerator", result.error)
          ELSE [planSections |->
                  <<[title |-> currentSection.title,
                     content |-> trim(content),
                     order |-> Len(s.planSections) + 1]>>,
                generatedSections |->
                  s.generatedSections \cup {currentSection.title},
                stepCount |-> s.stepCount + 1]

RECURSIVE FallbackBody(_)
FallbackBody(sorted) ==
  IF sorted = << >> THEN << >>
  ELSE << <<"">>, <<Head(sorted).content>>, <<"">>, <<"---">>, <<"">> >>
       \o FallbackBody(Tail(sorted))

(* The document the aggregator's catch block builds (lines 905-915)         *)
FallbackPlan(s) ==
  LET sorted == SortByOrder(s.planSections)
      technologies == Join(s.detectedTechStack \o s.suggestedTechStack)
  IN << <<"# Development Plan">>, <<"">>,
        <<"**Type:** ",
          IF Truthy(s.projectCategory) THEN s.projectCategory ELSE "Unknown">>,
        <<"**Stack:** ">> \o technologies,
        <<"**Complexity:** ", s.projectComplexity>>,
        <<"">>, <<"---">>, <<"">> >>
     \o FallbackBody(sorted)

(* ContextManager.generateSummary never throws: it answers the model's      *)
(* summary or its own heuristic one                                         *)
generateSummary(planMarkdown) == <<"summary of ", planMarkdown>>

(* Variant: the aggregator's catch block gives up like the other nodes' *)
planAggregatorNodeNoFallback(s, result, content) ==
  IF s.stepCount >= s.maxSteps THEN BudgetExceeded(s, "planAggregator")
  ELSE IF result.ok
  THEN [finalPlan |-> TextDoc(trim(content)), stepCount |-> s.stepCount + 1]
  ELSE Caught(s, "planAggregator", result.error)

(* Variant: the aggregator does not look at the step budget *)
planAggregatorNodeIgnoresBudget(s, result, content) ==
  IF Len(s.planSections) = 0
  THEN Caught(s, "planAggregator", ErrNoSectionsGenerated)
  ELSE [finalPlan |-> FallbackPlan(s),
        planSummary |-> NoSummary,
        stepCount |-> s.stepCount + 1]

planAggregatorNode(s, result, content) ==
  IF s.stepCount >= s.maxSteps THEN BudgetExceeded(s, "planAggregator")
  ELSE IF Len(s.planSections) = 0
  THEN Caught(s, "planAggregator", ErrNoSectionsGenerated)
  ELSE IF result.ok
  THEN [finalPlan |-> TextDoc(trim(content)),
        planSummary |-> generateSummary(content),
        stepCount |-> s.stepCount + 1]
  ELSE [finalPlan |-> FallbackPlan(s),
        planSummary |->
          <<s.projectCategory, " with ", ToString(Len(s.planSections)),
            " sections">>,
        lastError |-> Err(result.error),
        stepCount |-> s.stepCount + 1]

RECURSIVE Pow2(_)
Pow2(n) == IF n = 0 THEN 1 ELSE 2 * Pow2(n - 1)

Min(a, b) == IF a <= b THEN a ELSE b

(* Variant: the exponent is the new retry count itself *)
DelayOfNextCount(newRetryCount) ==
  Min(BaseDelay * Pow2(newRetryCount), MaxDelay)

(* The backoff delay of the n-th retry (line 954)                           *)
Delay(newRetryCount) == Min(BaseDelay * Pow2(newRetryCount - 1), MaxDelay)

(* Variant: the retry handler leaves lastError as it found it *)
retryHandlerNodeKeepsError(s) ==
  [retryCount |-> s.retryCount + 1, stepCount |-> s.stepCount + 1]

retryHandlerNode(s) ==
  LET newRetryCount == s.retryCount + 1
  IN IF newRetryCount > s.maxRetries
     THEN [retryCount |-> newRetryCount,
           lastError |->
             <<ErrMaxRetries>>
             \o (IF s.lastError = NoError THEN <<Null>> ELSE s.lastError),
           stepCount |-> s.stepCount + 1]
     ELSE [retryCount |-> newRetryCount,
           lastError |-> NoError,
           stepCount |-> s.stepCount + 1]

----------------------------------------------------------------------------
(* The routers of lib/pipeline/routing.ts, on the merged state              *)

(* Variant: the router as the README gives it, with neither the halt nor    *)
(* the classification                                                       *)
afterInitialAnalysisReadme(s) ==
  IF s.lastError # NoError THEN "retryHandlerNode"
  ELSE IF s.needsClarification THEN "clarificationNode"
  ELSE "sectionPlanningNode"

afterInitialAnalysis(s) ==
  IF s.lastError # NoError THEN "retryHandlerNode"
  ELSE IF s.needsClarification /\ s.clarificationQuestions > 0 THEN END
  ELSE "classificationNode"

(* Variant: a failed classification halts the run *)
afterClassificationHalts(s) ==
  IF s.lastError # NoError THEN END ELSE "sectionPlanningNode"

afterClassification(s) ==
  IF s.lastError # NoError THEN "retryHandlerNode"
  ELSE CASE s.promptType = "general" -> "generalResponseNode"
         [] s.promptType = "chatbot" -> "chatbotResponseNode"
         [] s.promptType = "builder" -> "sectionPlanningNode"
         [] s.promptType = "unclear" -> "clarificationNode"
         [] OTHER ->
              IF s.intentConfidence > 0 /\ s.intentConfidence < 5
              THEN "clarificationNode"
              ELSE IF s.history > 0 THEN "chatbotResponseNode"
                   ELSE "generalResponseNode"

(* Variant: a failed clarification is retried like any other failure *)
afterClarificationRetries(s) ==
  IF s.lastError # NoError THEN "retryHandlerNode" ELSE END

afterClarification(s) == END

afterGeneralResponse(s) ==
  IF s.lastError # NoError THEN "retryHandlerNode" ELSE END

afterChatbotResponse(s) ==
  IF s.lastError # NoError THEN "retryHandlerNode" ELSE END

afterSectionPlanning(s) ==
  IF s.lastError # NoError THEN "retryHandlerNode"
  ELSE IF Len(s.sections) = 0 THEN "retryHandlerNode"
  ELSE "sectionGeneratorNode"

isRecoverable(lastError) ==
  \/ Includes(lastError, "timeout")
  \/ Includes(lastError, "rate limit")
  \/ Includes(lastError, "network")

(* Variant: the loop is left for the Aggregator after the first section *)
afterSectionGeneratorStopsEarly(s) ==
  IF s.lastError # NoError
  THEN IF isRecoverable(s.lastError) /\ s.retryCount < s.maxRetries
       THEN "retryHandlerNode"
       ELSE IF Len(s.planSections) > 0 THEN "planAggregatorNode"
       ELSE "retryHandlerNode"
  ELSE IF Cardinality(s.generatedSections) > 0 THEN "planAggregatorNode"
  ELSE "sectionGeneratorNode"

(* Variant: an error that is not retried goes to the Aggregator whether or  *)
(* not a section exists                                                     *)
afterSectionGeneratorAlwaysAggregates(s) ==
  IF s.lastError # NoError
  THEN IF isRecoverable(s.lastError) /\ s.retryCount < s.maxRetries
       THEN "retryHandlerNode"
       ELSE "planAggregatorNode"
  ELSE IF Cardinality(s.generatedSections) >= Len(s.sections)
          /\ Len(s.sections) > 0
  THEN "planAggregatorNode"
  ELSE "sectionGeneratorNode"

afterSectionGenerator(s) ==
  IF s.lastError # NoError
  THEN IF isRecoverable(s.lastError) /\ s.retryCount < s.maxRetries
       THEN "retryHandlerNode"
       ELSE IF Len(s.planSections) > 0 THEN "planAggregatorNode"
       ELSE "retryHandlerNode"
  ELSE LET totalSections == Len(s.sections)
           generatedCount == Cardinality(s.generatedSections)
       IN IF generatedCount >= totalSections /\ totalSections > 0
          THEN "planAggregatorNode"
          ELSE "sectionGeneratorNode"

afterPlanAggregator(s) == END

(* Variant: every retry restarts at the classifier *)
nodeMapRestarts(failedNode) == "classificationNode"

(* The retry target of a failed node (lines 209-220): the mapped node, or   *)
(* the classifier when failedNode is null or unknown                        *)
nodeMap(failedNode) ==
  CASE failedNode = "initialAnalysis" -> "initialAnalysisNode"
    [] failedNode = "classification" -> "classificationNode"
    [] failedNode = "clarification" -> "clarificationNode"
    [] failedNode = "generalResponse" -> "generalResponseNode"
    [] failedNode = "chatbotResponse" -> "chatbotResponseNode"
    [] failedNode = "sectionPlanning" -> "sectionPlanningNode"
    [] failedNode = "sectionGenerator" -> "sectionGeneratorNode"
    [] failedNode = "planAggregator" -> "planAggregatorNode"
    [] OTHER -> "classificationNode"

(* Variant: the router never gives up *)
afterRetryNeverGivesUp(s) == nodeMap(s.failedNode)

(* Variant: the router gives up one retry late *)
afterRetryOneLate(s) ==
  IF s.retryCount > s.maxRetries + 1
  THEN IF Len(s.planSections) > 0 THEN "planAggregatorNode" ELSE END
  ELSE nodeMap(s.failedNode)

(* Variant: giving up always goes to the aggregator *)
afterRetryAlwaysSalvages(s) ==
  IF s.retryCount > s.maxRetries THEN "planAggregatorNode"
  ELSE nodeMap(s.failedNode)

afterRetry(s) ==
  IF s.retryCount > s.maxRetries
  THEN IF Len(s.planSections) > 0 THEN "planAggregatorNode" ELSE END
  ELSE nodeMap(s.failedNode)

(* The conditional edges of the workflow (index.ts, lines 124-132)          *)
workflow(name, s) ==
  CASE name = "initialAnalysisNode" -> afterInitialAnalysis(s)
    [] name = "classificationNode" -> afterClassification(s)
    [] name = "clarificationNode" -> afterClarification(s)
    [] name = "generalResponseNode" -> afterGeneralResponse(s)
    [] name = "chatbotResponseNode" -> afterChatbotResponse(s)
    [] name = "sectionPlanningNode" -> afterSectionPlanning(s)
    [] name = "sectionGeneratorNode" -> afterSectionGenerator(s)
    [] name = "planAggregatorNode" -> afterPlanAggregator(s)
    [] name = "retryHandlerNode" -> afterRetry(s)

(* Variant: the response reports a failure whenever lastError is set *)
runPipelineErrorFirst(s) ==
  IF s.lastError # NoError
  THEN [success |-> FALSE, needsClarification |-> FALSE, data |-> "none",
        retriesExceeded |-> s.retryCount > s.maxRetries,
        stepsExceeded |-> s.stepCount >= s.maxSteps]
  ELSE [success |-> TruthyDoc(s.finalPlan), needsClarification |-> FALSE,
        data |-> IF TruthyDoc(s.finalPlan) THEN "plan" ELSE "none",
        retriesExceeded |-> FALSE, stepsExceeded |-> FALSE]

(* Variant: a clarification request is reported as a success *)
runPipelineClarificationSucceeds(s) ==
  IF s.needsClarification /\ s.clarificationQuestions > 0
  THEN [success |-> TRUE, needsClarification |-> TRUE, data |-> "none",
        markdown |-> Null,
        retriesExceeded |-> FALSE, stepsExceeded |-> FALSE]
  ELSE [success |-> FALSE, needsClarification |-> FALSE, data |-> "none",
        markdown |-> Null,
        retriesExceeded |-> FALSE, stepsExceeded |-> FALSE]

(* The response runPipeline builds from the final state (lines 172-279);    *)
(* data is "none" for null, and markdown is then Null                       *)
runPipeline(s) ==
  IF s.needsClarification /\ s.clarificationQuestions > 0
  THEN [success |-> FALSE, needsClarification |-> TRUE, data |-> "none",
        markdown |-> Null,
        retriesExceeded |-> FALSE, stepsExceeded |-> FALSE]
  ELSE IF Truthy(s.finalResponse)
  THEN [success |-> TRUE, needsClarification |-> FALSE, data |-> "response",
        markdown |-> s.finalResponse,
        retriesExceeded |-> FALSE, stepsExceeded |-> FALSE]
  ELSE IF TruthyDoc(s.finalPlan)
  THEN [success |-> TRUE, needsClarification |-> FALSE, data |-> "plan",
        markdown |-> s.finalPlan,
        retriesExceeded |-> FALSE, stepsExceeded |-> FALSE]
  ELSE IF s.lastError # NoError
  THEN [success |-> FALSE, needsClarification |-> FALSE, data |-> "none",
        markdown |-> Null,
        retriesExceeded |-> s.retryCount > s.maxRetries,
        stepsExceeded |-> s.stepCount >= s.maxSteps]
  ELSE [success |-> FALSE, needsClarification |-> FALSE, data |-> "none",
        markdown |-> Null,
        retriesExceeded |-> FALSE, stepsExceeded |-> FALSE]

----------------------------------------------------------------------------
(* The run *)

(* maxSteps is a channel of the compiled graph that index.ts exports: next  *)
(* to the default of createInitialState a caller's small budget is tried    *)
StepBudgets == {SmallMaxSteps, DefaultMaxSteps}

NoFaults == [kind |-> "none", section |-> 0]

(* runPipeline has validated the request and is about to initialize the    *)
(* model manager                                                            *)
START == "START"

(* The utilities while the pipeline is looked at on its own *)
NoAdaptive == [context |-> 0, complexity |-> "moderate", maxTokens |-> 0]
NoInvocation == [pc |-> "idle"]
NoLimiter == [pc |-> "idle"]

PipelineInit ==
  /\ \E req \in Requests, budget \in StepBudgets :
       state = [createInitialState(req.prompt, req.history)
                  EXCEPT !.maxSteps = budget]
  /\ node = START
  /\ executed = "none"
  /\ outcome = "none"
  /\ delays = << >>
  /\ faults = NoFaults
  /\ budgetHit = FALSE
  /\ raised = Null
  /\ cancelled = FALSE
  /\ classified = FALSE
  /\ llmCalls = << >>

Init ==
  /\ PipelineInit
  /\ adaptive = NoAdaptive
  /\ call = NoInvocation
  /\ limiter = NoLimiter

(* The result standing for a model call the node did not make *)
NoCall == [ok |-> TRUE, error |-> Null, fails |-> 0]

ResultsIf(called) == IF called THEN InvokeResults ELSE {NoCall}
ContentsIf(called, contents) == IF called THEN contents ELSE {Unparseable}
TextsIf(called, texts) == IF called THEN texts ELSE {""}

(* How an execution ended, read off the update the node returned *)
Outcome(update) ==
  IF "lastError" \in DOMAIN update /\ update.lastError # NoError
  THEN IF update.lastError = Err(ErrMaxSteps) THEN "budget"
       ELSE IF "failedNode" \in DOMAIN update THEN "failed"
       ELSE IF "finalPlan" \in DOMAIN update THEN "fallback"
       ELSE "exceeded"
  ELSE IF DOMAIN update = {"stepCount"} THEN "noop"
  ELSE "ok"

(* The place of the section a generator call is for: its index in sections  *)
SectionIndex(s) ==
  IF Len(Remaining(s)) = 0 THEN 0
  ELSE CHOOSE i \in 1..Len(s.sections) :
         /\ s.sections[i].title = Remaining(s)[1].title
         /\ \A j \in 1..(i - 1) : s.sections[j].title # Remaining(s)[1].title

(* The record of backend faults after one more model call: "one" while the  *)
(* only thing that went wrong in the run is a single timed-out attempt of a *)
(* section's call                                                           *)
Fault(f, result, section) ==
  IF result.ok /\ result.fails = 0 THEN f
  ELSE IF /\ f.kind = "none"
          /\ section > 0
          /\ result.fails = 1
          /\ (result.ok \/ result.error = ErrExhausted)
       THEN [kind |-> "one", section |-> section]
       ELSE [kind |-> "many", section |-> 0]

(* One node execution: the update goes through the reducers and the node's  *)
(* conditional edge is evaluated on the merged state                        *)
Execute(name, update) ==
  /\ state' = Merge(state, update)
  /\ node' = workflow(name, state')
  /\ executed' = name
  /\ outcome' = Outcome(update)
  /\ budgetHit' = (budgetHit \/ Outcome(update) = "budget")
  /\ UNCHANGED <<raised, cancelled>>
  /\ UNCHANGED utilities

WithinBudget == state.stepCount < state.maxSteps

(* What one model call of a node came to: an error, a parsed answer, the    *)
(* fallback of parseJSON in place of an answer that is no JSON, or a text   *)
(* taken as it is; with the parsed value the node went on with              *)
JSONCall(name, called, result, content, fallback) ==
  IF ~called THEN << >>
  ELSE IF ~result.ok
  THEN <<[call |-> name, got |-> "error", value |-> << >>]>>
  ELSE <<[call |-> name,
          got |-> IF content.parseable THEN "parsed" ELSE "default",
          value |-> <<parseJSON(content, fallback)>>]>>

TextCall(name, called, result, content) ==
  IF ~called THEN << >>
  ELSE IF ~result.ok
  THEN <<[call |-> name, got |-> "error", value |-> << >>]>>
  ELSE <<[call |-> name, got |-> "text", value |-> << >>]>>

(* ModelManager.initialize throws when no API key is configured and when    *)
(* Redis cannot be reached or written                                       *)
ErrNoKeysConfigured == "No API keys configured"
InitializeOutcomes == {"ok", ErrNoKeysConfigured, ErrRedis}

(* runPipeline awaits modelManager.initialize() before its try block        *)
(* (index.ts, lines 154-155): an exception of it leaves runPipeline, and    *)
(* the graph is invoked only when it returned                               *)
Initialize ==
  /\ node = START
  /\ \E initialized \in InitializeOutcomes :
       IF initialized = "ok"
       THEN node' = "initialAnalysisNode" /\ raised' = raised
       ELSE node' = END /\ raised' = initialized
  /\ UNCHANGED <<state, executed, outcome, delays, faults, budgetHit,
                 cancelled, classified, llmCalls>>
  /\ UNCHANGED utilities

InitialAnalysis ==
  /\ node = "initialAnalysisNode"
  /\ LET called == WithinBudget /\ ~isUserSkippingClarification(state.userPrompt)
     IN \E result \in ResultsIf(called) :
          \E content \in ContentsIf(called /\ result.ok,
                                    {Unparseable} \cup Parsed(AnalysisValues)) :
            /\ Execute("initialAnalysisNode",
                       initialAnalysisNode(state, result, content))
            /\ faults' = Fault(faults, result, 0)
            /\ llmCalls' = JSONCall("analysis", called, result, content,
                                    DefaultAnalysis(state))
  /\ UNCHANGED <<delays, classified>>

Classification ==
  /\ node = "classificationNode"
  /\ \E result \in ResultsIf(WithinBudget) :
       \E content \in ContentsIf(WithinBudget /\ result.ok,
                                 {Unparseable} \cup Parsed(ClassificationValues)) :
         /\ Execute("classificationNode",
                    classificationNode(state, result, content))
         /\ faults' = Fault(faults, result, 0)
         /\ llmCalls' = JSONCall("classification", WithinBudget, result,
                                 content, DefaultClassification)
  /\ UNCHANGED <<delays, classified>>

Clarification ==
  /\ node = "clarificationNode"
  /\ LET called == WithinBudget /\ state.clarificationQuestions = 0
     IN \E result \in ResultsIf(called) :
          \E content \in ContentsIf(called /\ result.ok,
                           {Unparseable}
                           \cup Parsed([questions : 0..MaxQuestions])) :
            /\ Execute("clarificationNode",
                       clarificationNode(state, result, content))
            /\ faults' = Fault(faults, result, 0)
            /\ llmCalls' = JSONCall("clarification", called, result, content,
                                    DefaultClarification)
  /\ UNCHANGED <<delays, classified>>

GeneralResponse ==
  /\ node = "generalResponseNode"
  /\ \E result \in ResultsIf(WithinBudget) :
       \E content \in TextsIf(WithinBudget /\ result.ok, Contents) :
         /\ Execute("generalResponseNode",
                    generalResponseNode(state, result, content))
         /\ faults' = Fault(faults, result, 0)
         /\ llmCalls' = TextCall("generalResponse", WithinBudget, result,
                                 content)
  /\ UNCHANGED <<delays, classified>>

ChatbotResponse ==
  /\ node = "chatbotResponseNode"
  /\ \E result \in ResultsIf(WithinBudget) :
       \E content \in TextsIf(WithinBudget /\ result.ok, Contents) :
         /\ Execute("chatbotResponseNode",
                    chatbotResponseNode(state, result, content))
         /\ faults' = Fault(faults, result, 0)
         /\ llmCalls' = TextCall("chatbotResponse", WithinBudget, result,
                                 content)
  /\ UNCHANGED <<delays, classified>>

SectionPlanning ==
  /\ node = "sectionPlanningNode"
  /\ LET classifies == WithinBudget /\ ~Truthy(state.projectCategory)
     IN \E classResult \in ResultsIf(classifies) :
          \E classContent \in ContentsIf(classifies /\ classResult.ok,
                                {Unparseable} \cup Parsed(ProjectValues)) :
            LET plans == WithinBudget /\ classResult.ok
            IN \E result \in ResultsIf(plans) :
                 \E content \in ContentsIf(plans /\ result.ok,
                                  {Unparseable} \cup Parsed(PlanValues)) :
                   /\ Execute("sectionPlanningNode",
                              sectionPlanningNode(state, classResult,
                                                  classContent, result, content))
                   /\ faults' = Fault(Fault(faults, classResult, 0), result, 0)
                   /\ classified' = (classified \/ (classifies /\ classResult.ok))
                   /\ llmCalls' =
                        JSONCall("projectClassification", classifies,
                                 classResult, classContent, DefaultProject)
                        \o JSONCall("sectionPlanning", plans, result, content,
                                    DefaultPlan)
  /\ UNCHANGED delays

SectionGenerator ==
  /\ node = "sectionGeneratorNode"
  /\ LET called == WithinBudget /\ Len(Remaining(state)) > 0
     IN \E result \in ResultsIf(called) :
          \E content \in TextsIf(called /\ result.ok, SectionContents) :
            /\ Execute("sectionGeneratorNode",
                       sectionGeneratorNode(state, result, content))
            /\ faults' = Fault(faults, result, SectionIndex(state))
            /\ llmCalls' = TextCall("sectionGenerator", called, result, content)
  /\ UNCHANGED <<delays, classified>>

PlanAggregator ==
  /\ node = "planAggregatorNode"
  /\ LET called == WithinBudget /\ Len(state.planSections) > 0
     IN \E result \in ResultsIf(called) :
          \E content \in TextsIf(called /\ result.ok, Contents) :
            /\ Execute("planAggregatorNode",
                       planAggregatorNode(state, result, content))
            /\ faults' = Fault(faults, result, 0)
            /\ llmCalls' = TextCall("planAggregator", called, result, content)
  /\ UNCHANGED <<delays, classified>>

(* The retry handler sleeps for the backoff delay unless it gives up        *)
RetryHandler ==
  /\ node = "retryHandlerNode"
  /\ Execute("retryHandlerNode", retryHandlerNode(state))
  /\ delays' = IF state.retryCount + 1 > state.maxRetries
               THEN delays
               ELSE Append(delays, Delay(state.retryCount + 1))
  /\ llmCalls' = << >>
  /\ UNCHANGED <<faults, classified>>

(* The caller asks for the run to be cancelled. runPipeline and             *)
(* runPipelineStream take the request only: nothing in the run reads the    *)
(* signal                                                                   *)
Cancel ==
  /\ node # END
  /\ ~cancelled
  /\ cancelled' = TRUE
  /\ UNCHANGED <<state, node, executed, outcome, delays, faults, budgetHit,
                 raised, classified, llmCalls>>
  /\ UNCHANGED utilities

Next ==
  \/ Initialize
  \/ Cancel
  \/ InitialAnalysis
  \/ Classification
  \/ Clarification
  \/ GeneralResponse
  \/ ChatbotResponse
  \/ SectionPlanning
  \/ SectionGenerator
  \/ PlanAggregator
  \/ RetryHandler

Spec == Init /\ [][Next]_vars

(* A node that is due is eventually executed: the graph runs its nodes one  *)
(* after the other without waiting for anything but the node itself         *)
FairSpec == Spec /\ WF_vars(Next)

----------------------------------------------------------------------------
(* calculateAdaptiveMaxTokens, the token budget of a section generator      *)
(* call, on its own: a context is known by its length in characters         *)

(* The pipeline before its first step, a request having been taken *)
PipelineIdle ==
  /\ state = createInitialState([skip |-> FALSE, words |-> 20], 0)
  /\ node = START
  /\ executed = "none"
  /\ outcome = "none"
  /\ delays = << >>
  /\ faults = NoFaults
  /\ budgetHit = FALSE
  /\ raised = Null
  /\ cancelled = FALSE
  /\ classified = FALSE
  /\ llmCalls = << >>

(* Math.ceil(text.length / 4) *)
estimateTokens(length) == (length + 3) \div 4

Max(a, b) == IF a >= b THEN a ELSE b

MinTokens == 2000
MaxTokens == 8000

(* The factors 1.5, 2.5 and 4.0 in tenths; a tier that is none of the three *)
(* gets 2.5                                                                 *)
ComplexityFactor(complexity) ==
  CASE complexity = "simple" -> 15
    [] complexity = "moderate" -> 25
    [] complexity = "complex" -> 40
    [] OTHER -> 25

(* Variant: the upper limit is left out *)
calculateAdaptiveMaxTokensNoCeiling(length, complexity) ==
  Max(MinTokens,
      (estimateTokens(length) * ComplexityFactor(complexity)) \div 10)

calculateAdaptiveMaxTokens(length, complexity) ==
  LET baseTokens == estimateTokens(length)
      factor == ComplexityFactor(complexity)
      \* Math.floor(baseTokens * factor)
      maxTokens == (baseTokens * factor) \div 10
  IN Min(MaxTokens, Max(MinTokens, maxTokens))

Tiers == {"simple", "moderate", "complex"}

(* projectComplexity is whatever the classification answered *)
Complexities == Tiers \cup {"other"}

TokenInit ==
  /\ PipelineIdle
  /\ adaptive \in [context : 0..MaxContext, complexity : Complexities,
                    maxTokens : {0}]
  /\ call = NoInvocation
  /\ limiter = NoLimiter

CalculateAdaptiveMaxTokens ==
  /\ adaptive.maxTokens = 0
  /\ adaptive' = [adaptive EXCEPT !.maxTokens =
                    calculateAdaptiveMaxTokens(adaptive.context,
                                               adaptive.complexity)]
  /\ UNCHANGED <<pipeline, call, limiter>>

TokenNext == CalculateAdaptiveMaxTokens

TokenSpec == TokenInit /\ [][TokenNext]_vars

----------------------------------------------------------------------------
(* One LLMInvoker.invoke call, step by step, against the key store of the   *)
(* ModelManager and the cooldown entries of the RateLimitManager            *)

(* An API key is known by the start of its text, which is all that getKey   *)
(* keeps of it, and by the rest. The keys of the environment, in order:     *)
(* the first two begin alike                                                *)
ApiKeys ==
  << [start |-> "a", rest |-> "1"], [start |-> "a", rest |-> "2"],
     [start |-> "b", rest |-> "3"] >>

(* The configured models in the order of their priority; initialize gives   *)
(* every model all the keys                                                 *)
ModelConfigs ==
  << [modelName |-> "M1", apiKeys |-> ApiKeys],
     [modelName |-> "M2", apiKeys |-> ApiKeys] >>

RECURSIVE KeysOf(_, _)
KeysOf(config, keys) ==
  IF keys = << >> THEN << >>
  ELSE <<[model |-> config.modelName, key |-> Head(keys)]>>
       \o KeysOf(config, Tail(keys))

RECURSIVE PairsOf(_)
PairsOf(configs) ==
  IF configs = << >> THEN << >>
  ELSE KeysOf(Head(configs), Head(configs).apiKeys) \o PairsOf(Tail(configs))

Pairs == { PairsOf(ModelConfigs)[i] : i \in DOMAIN PairsOf(ModelConfigs) }

(* RateLimitManager.getKey: the model name and the first ten characters of  *)
(* the key's base64 text                                                    *)
getKey(model, key) == <<model, key.start>>

isInCooldown(cooldowns, pair) == getKey(pair.model, pair.key) \in cooldowns

(* Variant: the cooldown is not written *)
setCooldownNowhere(cooldowns, pair) == cooldowns

setCooldown(cooldowns, pair) ==
  cooldowns \cup {getKey(pair.model, pair.key)}

(* null where a model/key pair is expected *)
NoPair == [model |-> Null, key |-> [start |-> Null, rest |-> Null]]

(* The first pair of a list that is neither cooling down nor refused by     *)
(* canMakeRequest, or null                                                  *)
RECURSIVE FirstUsable(_, _, _)
FirstUsable(pairs, cooldowns, refused) ==
  IF pairs = << >> THEN NoPair
  ELSE IF ~isInCooldown(cooldowns, Head(pairs)) /\ Head(pairs) \notin refused
       THEN Head(pairs)
       ELSE FirstUsable(Tail(pairs), cooldowns, refused)

getBestAvailableKey(cooldowns, refused) ==
  FirstUsable(PairsOf(ModelConfigs), cooldowns, refused)

getNextKey(current, cooldowns, refused) ==
  LET SameModel(p) == p.model = current.model /\ p.key # current.key
      Fallback(p) == p.model # current.model
  IN FirstUsable(SelectSeq(PairsOf(ModelConfigs), SameModel)
                   \o SelectSeq(PairsOf(ModelConfigs), Fallback),
                 cooldowns, refused)

(* A call about to begin: some keys are cooling down and canMakeRequest     *)
(* refuses some pairs, as other runs left them                              *)
InvokeInit ==
  /\ PipelineIdle
  /\ adaptive = NoAdaptive
  /\ limiter = NoLimiter
  /\ \E cooldowns \in SUBSET { getKey(p.model, p.key) : p \in Pairs },
        refused \in SUBSET Pairs :
       call = [pc |-> "start", attempt |-> 0, currentKey |-> NoPair,
               tried |-> << >>, backend |-> "none", marked |-> << >>,
               cooldowns |-> cooldowns, refused |-> refused,
               error |-> Null]

Raise(message) == call' = [call EXCEPT !.pc = "raised", !.error = message]

(* Lines 16-23; a store that cannot be read makes the lookup throw          *)
GetBestAvailableKey ==
  /\ call.pc = "start"
  /\ \/ Raise(ErrRedis)
     \/ LET found == getBestAvailableKey(call.cooldowns, call.refused)
        IN IF found = NoPair THEN Raise(ErrNoKeys)
           ELSE call' = [call EXCEPT !.pc = "attempt", !.currentKey = found]
  /\ UNCHANGED <<pipeline, adaptive, limiter>>

(* Lines 27-35: one backend attempt with the current key *)
ExecuteLLMCall ==
  /\ call.pc = "attempt"
  /\ \E answer \in BackendOutcomes :
       call' = [call EXCEPT !.attempt = @ + 1,
                            !.tried = Append(@, call.currentKey),
                            !.backend = answer,
                            !.pc = IF answer = "ok" THEN "report" ELSE "mark"]
  /\ UNCHANGED <<pipeline, adaptive, limiter>>

(* Lines 37-46: reportUsage is inside the try block, so a store that cannot *)
(* be written sends a call that was answered to the catch block             *)
ReportUsage ==
  /\ call.pc = "report"
  /\ \/ call' = [call EXCEPT !.pc = "returned"]
     \/ call' = [call EXCEPT !.pc = "mark"]
  /\ UNCHANGED <<pipeline, adaptive, limiter>>

(* Line 49 *)
MarkFailed ==
  /\ call.pc = "mark"
  /\ \/ Raise(ErrRedis)
     \/ call' = [call EXCEPT
                   !.cooldowns = setCooldown(@, call.currentKey),
                   !.marked = Append(@, call.currentKey),
                   !.pc = "next"]
  /\ UNCHANGED <<pipeline, adaptive, limiter>>

(* Lines 51-62, and the loop condition of line 25 *)
GetNextKey ==
  /\ call.pc = "next"
  /\ \/ Raise(ErrRedis)
     \/ LET nextKey == getNextKey(call.currentKey, call.cooldowns,
                                  call.refused)
        IN IF nextKey = NoPair THEN Raise(ErrExhausted)
           ELSE IF call.attempt < MaxAttempts
           THEN call' = [call EXCEPT !.pc = "attempt", !.currentKey = nextKey]
           ELSE call' = [call EXCEPT !.pc = "raised", !.currentKey = nextKey,
                                     !.error = ErrMaxAttempts]
  /\ UNCHANGED <<pipeline, adaptive, limiter>>

(* A cooldown entry expires (setEx, 60 s) while a backend attempt is        *)
(* awaited                                                                  *)
CooldownExpires ==
  /\ call.pc = "attempt"
  /\ \E entry \in call.cooldowns :
       call' = [call EXCEPT !.cooldowns = @ \ {entry}]
  /\ UNCHANGED <<pipeline, adaptive, limiter>>

InvokeNext ==
  \/ GetBestAvailableKey
  \/ ExecuteLLMCall
  \/ ReportUsage
  \/ MarkFailed
  \/ GetNextKey
  \/ CooldownExpires

InvokeSpec == InvokeInit /\ [][InvokeNext]_vars

----------------------------------------------------------------------------
(* RateLimitManager: the metrics of one model/key pair in the store, the    *)
(* clock, and two pipeline runs reporting usage for that pair               *)

ONE_MINUTE == 60000
ONE_DAY == 86400000

Runs == {1, 2}

(* The token counts a run reports *)
TokenCounts == {10, 20}

(* What redis.get returns when nothing is stored under the key *)
NoData == [rpm |-> -1, rpd |-> -1, tpm |-> -1, tpd |-> -1, lastReset |-> -1]

(* Lines 29-47 *)
getMetrics(data, now) ==
  IF data = NoData
  THEN [rpm |-> 0, rpd |-> 0, tpm |-> 0, tpd |-> 0, lastReset |-> now]
  ELSE data

(* Lines 55-76 of updateMetrics: the metrics it goes on to store *)
updatedMetrics(metrics, now, tokens) ==
  LET minuteElapsed == now - metrics.lastReset > ONE_MINUTE
      dayElapsed == now - metrics.lastReset > ONE_DAY
      rpm == IF minuteElapsed THEN 0 ELSE metrics.rpm
      tpm == IF minuteElapsed THEN 0 ELSE metrics.tpm
      rpd == IF dayElapsed THEN 0 ELSE metrics.rpd
      tpd == IF dayElapsed THEN 0 ELSE metrics.tpd
  IN [rpm |-> rpm + 1, rpd |-> rpd + 1,
      tpm |-> tpm + tokens, tpd |-> tpd + tokens,
      lastReset |-> IF dayElapsed THEN now ELSE metrics.lastReset]

(* The limits of a configured model, with the requests per minute of the    *)
(* model                                                                    *)
Limits == [rpm |-> RpmLimit, rpd |-> 1000, tpm |-> 12000, tpd |-> 100000]

(* Lines 81-109 *)
canMakeRequest(data, now, limits, estimatedTokens) ==
  LET metrics == getMetrics(data, now)
  IN ~ \/ metrics.rpm >= limits.rpm
       \/ metrics.rpd >= limits.rpd
       \/ metrics.tpm + estimatedTokens > limits.tpm
       \/ metrics.tpd + estimatedTokens > limits.tpd

Waiting == [pc |-> "ready", metrics |-> NoData]

LimiterInit ==
  /\ PipelineIdle
  /\ adaptive = NoAdaptive
  /\ call = NoInvocation
  /\ limiter = [pc |-> "running", data |-> NoData, now |-> 0,
                runs |-> [r \in Runs |-> Waiting],
                reports |-> [r \in Runs |-> 0],
                log |-> << >>, reported |-> 0, overlapped |-> FALSE]

Reading(r) == limiter.runs[r].pc = "write"

(* updateMetrics up to its last await: the metrics are read and the new     *)
(* ones computed                                                            *)
ReadMetrics ==
  /\ \E r \in Runs, tokens \in TokenCounts :
       /\ limiter.runs[r].pc = "ready"
       /\ limiter.reports[r] < MaxReports
       /\ limiter' =
            [limiter EXCEPT
               !.runs[r] =
                 [pc |-> "write",
                  metrics |-> updatedMetrics(getMetrics(limiter.data,
                                                        limiter.now),
                                             limiter.now, tokens)],
               !.reported = @ + tokens,
               !.overlapped = @ \/ \E other \in Runs \ {r} : Reading(other)]
  /\ UNCHANGED <<pipeline, adaptive, call>>

(* redis.setEx of updateMetrics: the call completes *)
WriteMetrics ==
  /\ \E r \in Runs :
       /\ limiter.runs[r].pc = "write"
       /\ limiter' =
            [limiter EXCEPT
               !.data = limiter.runs[r].metrics,
               !.runs[r] = Waiting,
               !.reports[r] = @ + 1,
               !.log = Append(@, limiter.now)]
  /\ UNCHANGED <<pipeline, adaptive, call>>

(* Time passes while no report is under way *)
Tick ==
  /\ \A r \in Runs : ~Reading(r)
  /\ limiter.now < MaxTicks * TickMs
  /\ limiter' = [limiter EXCEPT !.now = @ + TickMs]
  /\ UNCHANGED <<pipeline, adaptive, call>>

LimiterNext ==
  \/ ReadMetrics
  \/ WriteMetrics
  \/ Tick

LimiterSpec == LimiterInit /\ [][LimiterNext]_vars

----------------------------------------------------------------------------
(* Properties *)

Response == runPipeline(state)

HaltClarification == Response.needsClarification /\ ~Response.success
HaltFailure == ~Response.success /\ ~Response.needsClarification
HaltWithPlan == Response.success /\ TruthyDoc(state.finalPlan)
HaltWithOutput ==
  Response.success /\ (TruthyDoc(state.finalPlan) \/ Truthy(state.finalResponse))

ExactlyOne(a, b, c) ==
  \/ a /\ ~b /\ ~c
  \/ ~a /\ b /\ ~c
  \/ ~a /\ ~b /\ c

(* The most node executions a run can have: the budget, then one execution  *)
(* and one retry handler run for each of the maxRetries + 1 retries         *)
StepBound(s) == s.maxSteps + 2 * (s.maxRetries + 1)

(* C1, as amended: under FairSpec every run halts; when the graph has run   *)
(* and halted, the response is exactly one of: clarification pending,       *)
(* success with finalPlan or finalResponse set, failure; and a run never    *)
(* executes more than maxSteps + 2 * (maxRetries + 1) nodes.                *)
C1_HaltsInOneOutcome ==
  /\ <>(node = END)
  /\ [](state.stepCount <= StepBound(state))
  /\ []((node = END /\ raised = Null) =>
          ExactlyOne(HaltClarification, HaltWithOutput, HaltFailure))

C1_Witness ==
  /\ node = END
  /\ HaltWithOutput
  /\ state.finalPlan = NullDoc
  /\ state.retryCount > 0

(* C1, as stated: a halted run is in exactly one of clarification pending,  *)
(* success with finalPlan set, failure.                                     *)
C1_AsStated ==
  node = END => ExactlyOne(HaltClarification, HaltWithPlan, HaltFailure)

(* C2, as stated: whenever a node is about to execute, stepCount is at most *)
(* maxSteps.                                                                *)
C2_AsStated ==
  node # END => state.stepCount <= state.maxSteps

(* C3: retryCount never exceeds maxRetries + 1.                             *)
C3_RetryCountBounded ==
  state.retryCount <= state.maxRetries + 1

C3_Witness ==
  /\ executed = "retryHandlerNode"
  /\ state.retryCount = state.maxRetries + 1

(* C4, as stated: a run that has halted with needsClarification true has no *)
(* entry in planSections.                                                   *)
C4_AsStated ==
  (node = END /\ state.needsClarification) => Len(state.planSections) = 0

(* The aggregator began its last execution within the step budget *)
AggregatedWithinBudget ==
  /\ executed = "planAggregatorNode"
  /\ state.stepCount - 1 < state.maxSteps

(* C5, as amended: after an execution of the Aggregator that began with     *)
(* stepCount < maxSteps and at least one entry in planSections, finalPlan   *)
(* is not null, whether its model call succeeded or failed.                 *)
C5_AggregatorWithinBudgetSetsPlan ==
  (AggregatedWithinBudget /\ Len(state.planSections) >= 1)
    => state.finalPlan # NullDoc

C5_Witness ==
  /\ AggregatedWithinBudget
  /\ outcome = "fallback"
  /\ Len(state.planSections) >= 1
  /\ state.finalPlan = FallbackPlan(state)

(* C5, as stated: after any execution of the Aggregator with at least one   *)
(* entry in planSections, finalPlan is not null.                            *)
C5_AsStated ==
  (executed = "planAggregatorNode" /\ Len(state.planSections) >= 1)
    => state.finalPlan # NullDoc

(* The node that executed last reported a failure of its own: it returned   *)
(* lastError together with failedNode                                       *)
NodeFailed == outcome \in {"failed", "budget"}

(* C6, as amended: after a failed execution of the Intent Analyzer, the     *)
(* Classifier or the Section Planner the next node is the Retry             *)
(* Coordinator; after a failed Section Generator it is the Retry            *)
(* Coordinator if the error is recoverable and retryCount < maxRetries, or  *)
(* if planSections is empty, and the Aggregator otherwise; after a failed   *)
(* Clarifier or Aggregator the run halts.                                   *)
C6_FailureRouting ==
  NodeFailed =>
    CASE executed \in {"initialAnalysisNode", "classificationNode",
                       "sectionPlanningNode"} ->
           node = "retryHandlerNode"
      [] executed = "sectionGeneratorNode" ->
           IF \/ /\ isRecoverable(state.lastError)
                 /\ state.retryCount < state.maxRetries
              \/ Len(state.planSections) = 0
           THEN node = "retryHandlerNode"
           ELSE node = "planAggregatorNode"
      [] executed \in {"clarificationNode", "planAggregatorNode"} ->
           node = END
      [] OTHER -> TRUE

C6_Witness ==
  /\ NodeFailed
  /\ executed = "sectionGeneratorNode"
  /\ outcome = "failed"
  /\ node = "planAggregatorNode"

(* C6, as stated: after a failed execution of the Intent Analyzer, the      *)
(* Clarifier, the Classifier, the Section Planner, the Section Generator or *)
(* the Aggregator, the next node is the Retry Coordinator.                  *)
C6_AsStated ==
  (/\ NodeFailed
   /\ executed \in {"initialAnalysisNode", "clarificationNode",
                    "classificationNode", "sectionPlanningNode",
                    "sectionGeneratorNode", "planAggregatorNode"})
    => node = "retryHandlerNode"

DistinctTitles(sections) ==
  \A i, j \in DOMAIN sections :
    sections[i].title = sections[j].title => i = j

(* planSections holds each planned title exactly once *)
EachTitleOnce(s) ==
  /\ Len(s.planSections) = Len(s.sections)
  /\ \A i \in DOMAIN s.sections :
       Cardinality({ j \in DOMAIN s.planSections :
                       s.planSections[j].title = s.sections[i].title }) = 1

(* C8, as stated: when all that went wrong in a run is one timed-out        *)
(* attempt of the model call for one of the n >= 1 planned sections, the    *)
(* run halts successfully after exactly one retry with backoff, with        *)
(* retryCount = 1 and each planned title once in planSections.              *)
C8_AsStated ==
  (/\ node = END
   /\ faults.kind = "one"
   /\ DistinctTitles(state.sections))
    => /\ state.retryCount = 1
       /\ delays = <<Delay(1)>>
       /\ HaltWithPlan
       /\ EachTitleOnce(state)

(* C9, as stated: a Section Generator execution that finds no remaining     *)
(* section is followed by the Aggregator.                                   *)
C9_AsStated ==
  (executed = "sectionGeneratorNode" /\ outcome = "noop")
    => node = "planAggregatorNode"

(* C10: after every Section Generator execution, successful, failed or      *)
(* no-op, planSections has as many entries as generatedSections has titles. *)
C10_SectionsMatchTitles ==
  executed = "sectionGeneratorNode"
    => Len(state.planSections) = Cardinality(state.generatedSections)

C10_Witness ==
  /\ executed = "sectionGeneratorNode"
  /\ outcome = "failed"
  /\ Len(state.planSections) = 1
  /\ Len(state.sections) = 2

(* C11: in every reachable state, every title in generatedSections is the  *)
(* title of some entry of sections, also after a retry has re-entered the   *)
(* Section Planner or an earlier node.                                      *)
Titles(sections) == { sections[i].title : i \in 1..Len(sections) }

C11_GeneratedArePlanned ==
  state.generatedSections \subseteq Titles(state.sections)

C11_Witness ==
  /\ state.failedNode = "sectionPlanning"
  /\ state.retryCount > 0
  /\ state.generatedSections # {}

RetriesExceeded ==
  executed = "retryHandlerNode" /\ state.retryCount > state.maxRetries

(* C12: when a Retry Coordinator execution has made retryCount exceed       *)
(* maxRetries, the next node is the Aggregator if planSections is non-empty, *)
(* and otherwise the run halts with a failure response (success = false,    *)
(* no data).                                                                *)
C12_GivingUp ==
  RetriesExceeded =>
    IF Len(state.planSections) > 0
    THEN node = "planAggregatorNode"
    ELSE node = END /\ ~Response.success /\ Response.data = "none"

C12_Witness ==
  /\ RetriesExceeded
  /\ Len(state.planSections) = 0
  /\ node = END
  /\ Response.retriesExceeded

(* The step limit is reached while the run is going on and planned sections *)
(* are still to be generated                                                *)
LimitMidGeneration ==
  /\ node \notin {START, END}
  /\ state.stepCount >= state.maxSteps
  /\ Len(Remaining(state)) > 0

HaltStepLimit == ~Response.success /\ Response.stepsExceeded

IsPrefix(p, q) == Len(p) <= Len(q) /\ SubSeq(q, 1, Len(p)) = p

AllGenerated == Len(state.sections) > 0 /\ Len(Remaining(state)) = 0

(* C14: when all planned sections were generated and the Aggregator's model *)
(* call fails, the run halts with finalPlan the fallback document,          *)
(* planSummary the templated "<category> with <n> sections", lastError set  *)
(* as a warning, and a response with success = true carrying the plan.      *)
C14_DegradedAggregation ==
  (executed = "planAggregatorNode" /\ outcome = "fallback" /\ AllGenerated)
    => /\ node = END
       /\ state.finalPlan = FallbackPlan(state)
       /\ state.planSummary =
            <<state.projectCategory, " with ",
              ToString(Len(state.planSections)), " sections">>
       /\ state.lastError # NoError
       /\ Response.success
       /\ Response.data = "plan"

C14_Witness ==
  /\ executed = "planAggregatorNode"
  /\ outcome = "fallback"
  /\ AllGenerated
  /\ Len(state.planSections) = 2
  /\ Response.success

(* C15: after any Clarifier execution, successful or failed, the run has    *)
(* halted: no node is due to execute next.                                  *)
C15_ClarifierHalts == executed = "clarificationNode" => node = END

C15_Witness ==
  /\ executed = "clarificationNode"
  /\ outcome = "failed"
  /\ node = END

(* C16: whenever the Clarifier is about to execute, needsClarification is   *)
(* true and no clarification questions are stored.                          *)
C16_AsStated ==
  node = "clarificationNode"
    => state.needsClarification /\ state.clarificationQuestions = 0

(* C17: once a project-classification call has returned, no later entry of  *)
(* the Section Planner issues that call again: the planner is only entered  *)
(* within budget with projectCategory set.                                  *)
C17_AsStated ==
  (node = "sectionPlanningNode" /\ WithinBudget /\ classified)
    => Truthy(state.projectCategory)

(* C18: no exception leaves runPipeline, whether it arises before the graph *)
(* starts or while it runs.                                                 *)
C18_AsStated == raised = Null

(* C19: once the caller has raised the cancellation signal, no further node *)
(* executes: the state is not changed any more.                             *)
C19_AsStated == [][cancelled => state' = state]_vars

(* C20: the k-th Retry Coordinator execution of a run sleeps                *)
(* min(1000 * 2^(k-1), 10000) ms (the executions that give up sleep         *)
(* nothing), so the delays never decrease and never exceed 10000 ms.        *)
C20_BackoffDelays ==
  /\ Len(delays) =
       (IF state.retryCount > state.maxRetries
        THEN state.maxRetries ELSE state.retryCount)
  /\ \A k \in 1..Len(delays) :
       /\ delays[k] = (IF 1000 * 2^(k - 1) < 10000
                       THEN 1000 * 2^(k - 1) ELSE 10000)
       /\ delays[k] <= 10000
       /\ k > 1 => delays[k - 1] <= delays[k]

C20_Witness ==
  /\ executed = "retryHandlerNode"
  /\ Len(delays) = 3
  /\ delays[3] = 4000

(* runPipeline has returned a response: the graph ran and halted            *)
Responded == node = END /\ raised = Null

(* C21: in every response runPipeline returns, success = true implies data  *)
(* is non-null and its markdown is the run's finalResponse or finalPlan,    *)
(* success = false implies data = null, and needsClarification = true       *)
(* implies success = false.                                                 *)
C21_ResponseShape ==
  Responded =>
    /\ Response.success =>
         /\ Response.data # "none"
         /\ Response.data = "response" =>
              Response.markdown = state.finalResponse
         /\ Response.data = "plan" => Response.markdown = state.finalPlan
    /\ ~Response.success => Response.data = "none"
    /\ Response.needsClarification => ~Response.success

C21_Witness ==
  /\ Responded
  /\ Response.success
  /\ Response.data = "response"
  /\ Response.markdown = "text"

KnownFailedNodes ==
  {"initialAnalysis", "classification", "clarification", "generalResponse",
   "chatbotResponse", "sectionPlanning", "sectionGenerator", "planAggregator"}

Retried ==
  executed = "retryHandlerNode" /\ state.retryCount <= state.maxRetries

(* C22: when a Retry Coordinator execution has left retryCount <=           *)
(* maxRetries, lastError is cleared and the next node is the one named by   *)
(* failedNode, or the Classifier when failedNode is null or names no node.  *)
C22_RetryTarget ==
  Retried =>
    /\ state.lastError = NoError
    /\ \/ /\ state.failedNode = "initialAnalysis"
          /\ node = "initialAnalysisNode"
       \/ /\ state.failedNode = "classification"
          /\ node = "classificationNode"
       \/ /\ state.failedNode = "clarification"
          /\ node = "clarificationNode"
       \/ /\ state.failedNode = "generalResponse"
          /\ node = "generalResponseNode"
       \/ /\ state.failedNode = "chatbotResponse"
          /\ node = "chatbotResponseNode"
       \/ /\ state.failedNode = "sectionPlanning"
          /\ node = "sectionPlanningNode"
       \/ /\ state.failedNode = "sectionGenerator"
          /\ node = "sectionGeneratorNode"
       \/ /\ state.failedNode = "planAggregator"
          /\ node = "planAggregatorNode"
       \/ /\ state.failedNode \notin KnownFailedNodes
          /\ node = "classificationNode"

C22_Witness ==
  /\ Retried
  /\ state.failedNode = Null
  /\ node = "classificationNode"

(* A step in which the named node executed *)
Ran(name) == state' # state /\ executed' = name

(* C23: no node execution removes or changes an entry of planSections or    *)
(* removes a title from generatedSections; a failed Section Generator       *)
(* invocation and every Retry Coordinator execution leave sections,         *)
(* planSections and generatedSections as they were.                         *)
C23_GeneratedIsKept ==
  [][/\ IsPrefix(state.planSections, state.planSections')
     /\ state.generatedSections \subseteq state.generatedSections'
     /\ (\/ Ran("retryHandlerNode")
         \/ Ran("sectionGeneratorNode") /\ outcome' \in {"failed", "budget"})
        => /\ state.sections' = state.sections
           /\ state.planSections' = state.planSections
           /\ state.generatedSections' = state.generatedSections]_vars

C23_Witness ==
  /\ executed = "retryHandlerNode"
  /\ state.failedNode = "sectionGenerator"
  /\ Len(state.planSections) = 1
  /\ state.generatedSections # {}

(* C24: the i-th entry of planSections has order = i.                       *)
C24_OrderIsPosition ==
  \A i \in 1..Len(state.planSections) : state.planSections[i].order = i

C24_Witness ==
  /\ Len(state.planSections) = 2
  /\ state.planSections[2].order = 2
  /\ state.planSections[1].title # state.planSections[2].title

(* C25: a Section Generator invocation whose model call succeeded adds      *)
(* exactly one entry to planSections, titled like the first entry of        *)
(* sections whose title was not in generatedSections when it began.         *)
C25_GeneratesFirstRemaining ==
  [][(Ran("sectionGeneratorNode") /\ outcome' = "ok")
       => /\ Len(state.planSections') = Len(state.planSections) + 1
          /\ \E i \in 1..Len(state.sections) :
               /\ state.sections[i].title \notin state.generatedSections
               /\ \A j \in 1..(i - 1) :
                    state.sections[j].title \in state.generatedSections
               /\ state.planSections'[Len(state.planSections')].title
                    = state.sections[i].title]_vars

C25_Witness ==
  /\ executed = "sectionGeneratorNode"
  /\ outcome = "ok"
  /\ Len(state.sections) = 2
  /\ state.sections[1].title # state.sections[2].title
  /\ Len(state.planSections) = 2
  /\ state.planSections[2].title = state.sections[2].title

ProjectFields(s) ==
  <<s.projectCategory, s.detectedTechStack, s.suggestedTechStack,
    s.projectComplexity>>

(* C26, as stated: once projectCategory, detectedTechStack,                 *)
(* suggestedTechStack and projectComplexity are set by the project          *)
(* classification, no later node execution of the run changes any of them.  *)
C26_AsStated ==
  [][Truthy(state.projectCategory)
       => ProjectFields(state') = ProjectFields(state)]_vars

AfterAnalysis == executed = "initialAnalysisNode"

C28_AsStated ==
  (Responded /\ HaltClarification) => state.clarificationQuestions \in 2..4

CallsOf(name) == {i \in DOMAIN llmCalls : llmCalls[i].call = name}

(* C29, as stated: when a model response cannot be parsed, the model call   *)
(* is re-issued exactly once, and the built-in default is substituted only  *)
(* if the second response cannot be parsed either: a node that went on with *)
(* a default has made that call twice.                                      *)
C29_AsStated ==
  \A i \in DOMAIN llmCalls :
    llmCalls[i].got = "default"
      => Cardinality(CallsOf(llmCalls[i].call)) = 2

AnalysedByModel ==
  /\ AfterAnalysis
  /\ Len(llmCalls) = 1
  /\ llmCalls[1].call = "analysis"
  /\ llmCalls[1].got \in {"parsed", "default"}

(* C30: for every Intent Analyzer result that came from a model call,       *)
(* needsClarification is false exactly when confidence >= 0.7, or           *)
(* confidence >= 0.5 and canProceedWithDefaults, or hasSufficientDetail     *)
(* and missingInfo is empty; otherwise it is true. (Confidence in tenths.)  *)
C30_IntentClearRule ==
  AnalysedByModel =>
    LET analysis == llmCalls[1].value[1]
    IN state.needsClarification
         = ~(\/ analysis.confidence >= 7
             \/ analysis.confidence >= 5 /\ analysis.canProceedWithDefaults
             \/ analysis.hasSufficientDetail /\ analysis.missingInfo = 0)

C30_Witness ==
  /\ AnalysedByModel
  /\ llmCalls[1].got = "parsed"
  /\ llmCalls[1].value[1].confidence = 5
  /\ llmCalls[1].value[1].canProceedWithDefaults
  /\ ~llmCalls[1].value[1].hasSufficientDetail
  /\ llmCalls[1].value[1].missingInfo > 0
  /\ ~state.needsClarification

Calculated == adaptive.maxTokens # 0 /\ adaptive.complexity \in Tiers

HasPiece(line, piece) == \E k \in DOMAIN line : line[k] = piece

FellBack == executed = "planAggregatorNode" /\ outcome = "fallback"

(* C32, as stated: when the Aggregator falls back after a failed model      *)
(* call, the fallback finalPlan holds, for every entry of planSections,     *)
(* that entry's title and after it its content.                             *)
C32_AsStated ==
  FellBack =>
    \A i \in DOMAIN state.planSections :
      \E t, c \in DOMAIN state.finalPlan :
        /\ t < c
        /\ HasPiece(state.finalPlan[t], state.planSections[i].title)
        /\ HasPiece(state.finalPlan[c], state.planSections[i].content)

(* C34, as stated: whenever the Retry Coordinator routes the run back to    *)
(* the node failedNode names, that node is the one that executed just       *)
(* before the Retry Coordinator and whose execution ended in failure:       *)
(* failedNode is never the name left by an earlier, recovered failure.      *)
C34_AsStated ==
  [][(/\ node = "retryHandlerNode"
      /\ Ran("retryHandlerNode")
      /\ state.failedNode # Null
      /\ state.retryCount' <= state.maxRetries')
       => /\ outcome \in {"failed", "budget"}
          /\ node' = executed]_vars

PlanReturned == Responded /\ Response.success /\ Response.data = "plan"

(* C35, as stated: whenever runPipeline returns a plan with success = true, *)
(* the titles in planSections are exactly the titles in sections.           *)
C35_AsStated ==
  PlanReturned => Titles(state.planSections) = Titles(state.sections)

(* C35, as amended: whenever runPipeline returns a plan with success =      *)
(* true, every title in planSections is the title of a planned section; and *)
(* when no error is recorded at that point, every planned section was       *)
(* generated: the titles in planSections are exactly the titles in          *)
(* sections.                                                                *)
C35_PlanIsOfPlannedSections ==
  PlanReturned =>
    /\ Titles(state.planSections) \subseteq Titles(state.sections)
    /\ state.lastError = NoError
         => Titles(state.planSections) = Titles(state.sections)

C35_Witness ==
  /\ PlanReturned
  /\ state.lastError = NoError
  /\ Len(state.planSections) = 2
  /\ Titles(state.sections) = {"A", "B"}

(* isTerminalState (routing.ts, lines 240-248) *)
isTerminalState(s) ==
  \/ Truthy(s.finalResponse)
  \/ TruthyDoc(s.finalPlan)
  \/ s.needsClarification
  \/ s.lastError # NoError /\ s.retryCount > s.maxRetries
  \/ s.stepCount >= s.maxSteps

(* C36, as stated: every state in which a run halts satisfies               *)
(* isTerminalState.                                                         *)
C36_AsStated == Responded => isTerminalState(state)

(* C37: the Aggregator is never entered in a state where planSections is    *)
(* empty, and no run records its 'No sections generated' error.             *)
C37_AggregatorHasSections ==
  /\ node = "planAggregatorNode" => Len(state.planSections) > 0
  /\ state.lastError # Err(ErrNoSectionsGenerated)

C37_Witness ==
  /\ node = "planAggregatorNode"
  /\ state.lastError # NoError
  /\ Len(state.planSections) = 1
  /\ Len(state.sections) = 2

Raised(messages) == call.pc = "raised" /\ call.error \in messages

Quiet == \A r \in Runs : ~Reading(r)

Stored == getMetrics(limiter.data, limiter.now)

(* C38, as stated: when pipeline runs report usage for the same model/key   *)
(* pair, concurrently or not, no update is lost: once the updateMetrics     *)
(* calls have completed, the stored request counter has grown by one for    *)
(* each call and the stored token counter by the sum of the token counts    *)
(* (the counters of the day, which no reset has touched).                   *)
C38_AsStated ==
  Quiet => /\ Stored.rpd = Len(limiter.log)
           /\ Stored.tpd = limiter.reported

RecordedInLastMinute ==
  Cardinality({i \in DOMAIN limiter.log :
                 limiter.now - limiter.log[i] < ONE_MINUTE})

(* C39, as stated: canMakeRequest refuses a request for a model/key pair    *)
(* whenever at least the requests-per-minute limit of requests has been     *)
(* recorded for the pair through updateMetrics during the preceding minute  *)
(* (here: by reports none of which overlapped another).                     *)
C39_AsStated ==
  (Quiet /\ ~limiter.overlapped /\ RecordedInLastMinute >= Limits.rpm)
    => ~canMakeRequest(limiter.data, limiter.now, Limits, 10)

(* Reports that do not overlap lose no update *)
SequentialReportsAreKept ==
  (Quiet /\ ~limiter.overlapped) => /\ Stored.rpd = Len(limiter.log)
                                    /\ Stored.tpd = limiter.reported

====
